---- MODULE Spec2Model ----
(***************************************************************************)
(* TOON codec of scripts/droid_toon_integration.py: TOONEncoder.encode and *)
(* TOONDecoder.decode as operators on texts, and a state machine that      *)
(* applies them to bounded inputs.                                         *)
(*                                                                         *)
(* A text (Python str) is a sequence of one-character strings.  A value    *)
(* (Python None/bool/int/float/str/dict/list) is a tagged record; a dict   *)
(* is the sequence of its <<key, value>> items in insertion order.         *)
(***************************************************************************)
EXTENDS Integers, Sequences, FiniteSets, TLC

VARIABLES pc, data, text, result, op, call_context

vars == <<pc, data, text, result, op, call_context>>

(***************************************************************************)
(* Characters                                                              *)
(***************************************************************************)
DQ == "\""
NL == "\n"
BS == "\\"
SP == " "
TAB == "\t"

Digits == <<"0", "1", "2", "3", "4", "5", "6", "7", "8", "9">>

DigitSet == {Digits[i] : i \in 1..Len(Digits)}

UpperCase == <<"A", "B", "C", "D", "E", "F", "G", "H", "I", "J", "K", "L", "M",
               "N", "O", "P", "Q", "R", "S", "T", "U", "V", "W", "X", "Y", "Z">>

LowerCase == <<"a", "b", "c", "d", "e", "f", "g", "h", "i", "j", "k", "l", "m",
               "n", "o", "p", "q", "r", "s", "t", "u", "v", "w", "x", "y", "z">>

Whitespace == {SP, NL, TAB}

(***************************************************************************)
(* Python str methods                                                      *)
(***************************************************************************)
\* c in s
HasChar(s, c) == \E i \in 1..Len(s) : s[i] = c

\* the indexes of c in s
Positions(s, c) == {i \in 1..Len(s) : s[i] = c}

\* s.startswith(p)
StartsWith(s, p) == Len(s) >= Len(p) /\ SubSeq(s, 1, Len(p)) = p

\* s.endswith(p)
EndsWith(s, p) == Len(s) >= Len(p) /\ SubSeq(s, Len(s) - Len(p) + 1, Len(s)) = p

\* s[n:]
Drop(s, n) == SubSeq(s, n + 1, Len(s))

\* s.lstrip()
RECURSIVE LStrip(_)
LStrip(s) == IF s # <<>> /\ s[1] \in Whitespace THEN LStrip(Tail(s)) ELSE s

\* s.rstrip()
RECURSIVE RStrip(_)
RStrip(s) ==
    IF s # <<>> /\ s[Len(s)] \in Whitespace THEN RStrip(SubSeq(s, 1, Len(s) - 1)) ELSE s

\* s.strip()
Strip(s) == LStrip(RStrip(s))

\* s.lower(), one character
LowerChar(c) ==
    IF \E i \in 1..Len(UpperCase) : UpperCase[i] = c
    THEN LowerCase[CHOOSE i \in 1..Len(UpperCase) : UpperCase[i] = c]
    ELSE c

\* s.lower()
Lower(s) == [i \in 1..Len(s) |-> LowerChar(s[i])]

\* s.isdigit()
IsDigit(s) == s # <<>> /\ \A i \in 1..Len(s) : s[i] \in DigitSet

\* s.replace(old, new), old non-empty: leftmost non-overlapping occurrences
RECURSIVE Replace(_, _, _)
Replace(s, old, new) ==
    IF s = <<>> THEN <<>>
    ELSE IF StartsWith(s, old) THEN new \o Replace(Drop(s, Len(old)), old, new)
    ELSE <<s[1]>> \o Replace(Tail(s), old, new)

\* sep.join(parts)
RECURSIVE Join(_, _)
Join(parts, sep) ==
    IF parts = <<>> THEN <<>>
    ELSE IF Len(parts) = 1 THEN parts[1]
    ELSE parts[1] \o sep \o Join(Tail(parts), sep)

\* index of the first c in s, 0 when there is none
FirstIndex(s, c) ==
    IF HasChar(s, c) THEN CHOOSE i \in 1..Len(s) : s[i] = c /\ \A j \in 1..(i - 1) : s[j] # c
    ELSE 0

\* s.split(c): always at least one part
RECURSIVE Split(_, _)
Split(s, c) ==
    IF ~HasChar(s, c) THEN <<s>>
    ELSE <<SubSeq(s, 1, FirstIndex(s, c) - 1)>> \o Split(Drop(s, FirstIndex(s, c)), c)

\* s.split(c, 1)
SplitOnce(s, c) ==
    IF ~HasChar(s, c) THEN <<s>>
    ELSE <<SubSeq(s, 1, FirstIndex(s, c) - 1), Drop(s, FirstIndex(s, c))>>

\* str(n) for an int n >= 0
RECURSIVE NatToStr(_)
NatToStr(n) == IF n < 10 THEN <<Digits[n + 1]>> ELSE NatToStr(n \div 10) \o <<Digits[(n % 10) + 1]>>

\* str(n) for an int
IntToStr(n) == IF n < 0 THEN <<"-">> \o NatToStr(-n) ELSE NatToStr(n)

DigitValue(c) == (CHOOSE i \in 1..Len(Digits) : Digits[i] = c) - 1

\* int(s) for s.isdigit()
RECURSIVE StrToNat(_)
StrToNat(s) ==
    IF s = <<>> THEN 0 ELSE StrToNat(SubSeq(s, 1, Len(s) - 1)) * 10 + DigitValue(s[Len(s)])

(***************************************************************************)
(* Values                                                                  *)
(***************************************************************************)
Null == [t |-> "null"]

Bool(b) == [t |-> "bool", b |-> b]

Integer(n) == [t |-> "int", n |-> n]

\* a float, kept as the text float() was given
Float(s) == [t |-> "float", f |-> s]

Str(s) == [t |-> "str", s |-> s]

\* a dict: its items <<key, value>> in insertion order, keys unique
Obj(kv) == [t |-> "obj", kv |-> kv]

\* a list
Arr(el) == [t |-> "arr", el |-> el]

\* an exception leaving the call
Raise(exc) == [t |-> "raise", exc |-> exc]

\* no value yet
NoValue == [t |-> "none"]

IsScalar(v) == v.t \in {"null", "bool", "int", "float", "str"}

\* list(d.keys())
Keys(kv) == [i \in 1..Len(kv) |-> kv[i][1]]

\* set(d.keys())
KeySet(kv) == {kv[i][1] : i \in 1..Len(kv)}

\* key in d
HasKey(kv, k) == \E i \in 1..Len(kv) : kv[i][1] = k

\* d[k]
Lookup(kv, k) == kv[CHOOSE i \in 1..Len(kv) : kv[i][1] = k][2]

\* d[k] = v: a present key keeps its position
DictSet(kv, k, v) ==
    IF HasKey(kv, k)
    THEN [i \in 1..Len(kv) |-> IF kv[i][1] = k THEN <<k, v>> ELSE kv[i]]
    ELSE Append(kv, <<k, v>>)

\* dict(zip(columns, values))
RECURSIVE DictZip(_, _)
DictZip(columns, values) ==
    IF columns = <<>> \/ values = <<>> THEN <<>>
    ELSE LET n == IF Len(columns) < Len(values) THEN Len(columns) ELSE Len(values)
         IN  DictSet(DictZip(SubSeq(columns, 1, n - 1), SubSeq(values, 1, n - 1)),
                     columns[n], values[n])

\* Python ==: dicts compare as mappings, lists in order; an int never equals a
\* float here because the model keeps a float as its text
RECURSIVE SameValue(_, _)
SameValue(v, w) ==
    IF v.t # w.t THEN FALSE
    ELSE IF v.t = "obj"
         THEN /\ Len(v.kv) = Len(w.kv)
              /\ KeySet(v.kv) = KeySet(w.kv)
              /\ \A k \in KeySet(v.kv) : SameValue(Lookup(v.kv, k), Lookup(w.kv, k))
    ELSE IF v.t = "arr"
         THEN /\ Len(v.el) = Len(w.el)
              /\ \A i \in 1..Len(v.el) : SameValue(v.el[i], w.el[i])
    ELSE v = w

(***************************************************************************)
(* TOONConfig defaults                                                     *)
(***************************************************************************)
indent_size == 2

compact_strings == FALSE

max_nesting_depth == 3

\* " " * n
RECURSIVE Spaces(_)
Spaces(n) == IF n <= 0 THEN <<>> ELSE <<SP>> \o Spaces(n - 1)

(***************************************************************************)
(* str() and json.dumps() of a value                                       *)
(***************************************************************************)
\* repr(s) of a str without single quotes
ReprStr(s) == <<"'">> \o Replace(Replace(s, <<BS>>, <<BS, BS>>), <<NL>>, <<BS, "n">>) \o <<"'">>

RECURSIVE PyRepr(_)
PyRepr(v) ==
    CASE v.t = "null" -> <<"N", "o", "n", "e">>
      [] v.t = "bool" -> IF v.b THEN <<"T", "r", "u", "e">> ELSE <<"F", "a", "l", "s", "e">>
      [] v.t = "int" -> IntToStr(v.n)
      [] v.t = "float" -> v.f
      [] v.t = "str" -> ReprStr(v.s)
      [] v.t = "obj" ->
            <<"{">> \o Join([i \in 1..Len(v.kv) |->
                                ReprStr(v.kv[i][1]) \o <<":", SP>> \o PyRepr(v.kv[i][2])],
                            <<",", SP>>) \o <<"}">>
      [] v.t = "arr" ->
            <<"[">> \o Join([i \in 1..Len(v.el) |-> PyRepr(v.el[i])], <<",", SP>>) \o <<"]">>

\* str(v)
PyStr(v) == IF v.t = "str" THEN v.s ELSE PyRepr(v)

\* json.dumps(s) of a str
JsonStr(s) ==
    <<DQ>> \o Replace(Replace(Replace(s, <<BS>>, <<BS, BS>>), <<DQ>>, <<BS, DQ>>),
                      <<NL>>, <<BS, "n">>) \o <<DQ>>

\* json.dumps(v)
RECURSIVE JsonDumps(_)
JsonDumps(v) ==
    CASE v.t = "null" -> <<"n", "u", "l", "l">>
      [] v.t = "bool" -> IF v.b THEN <<"t", "r", "u", "e">> ELSE <<"f", "a", "l", "s", "e">>
      [] v.t = "int" -> IntToStr(v.n)
      [] v.t = "float" -> v.f
      [] v.t = "str" -> JsonStr(v.s)
      [] v.t = "obj" ->
            <<"{">> \o Join([i \in 1..Len(v.kv) |->
                                JsonStr(v.kv[i][1]) \o <<":", SP>> \o JsonDumps(v.kv[i][2])],
                            <<",", SP>>) \o <<"}">>
      [] v.t = "arr" ->
            <<"[">> \o Join([i \in 1..Len(v.el) |-> JsonDumps(v.el[i])], <<",", SP>>) \o <<"]">>

(***************************************************************************)
(* TOONEncoder                                                             *)
(***************************************************************************)
\* _encode_string
_encode_string(value) ==
    IF compact_strings /\ ~\E c \in {",", NL, ":", SP} : HasChar(value, c)
    THEN value
    ELSE <<DQ>> \o Replace(Replace(value, <<DQ>>, <<DQ, DQ>>), <<NL>>, <<BS, "n">>) \o <<DQ>>

\* _encode_simple_value
_encode_simple_value(value) ==
    CASE value.t = "null" -> <<"n", "u", "l", "l">>
      [] value.t = "bool" -> Lower(PyStr(value))
      [] value.t \in {"int", "float"} -> PyStr(value)
      [] value.t = "str" -> _encode_string(value.s)
      [] OTHER -> JsonDumps(value)

\* _is_tabular without the len(values) == 1 test: some value is a list
_is_tabular_AnyField(obj) == \E i \in 1..Len(obj.kv) : obj.kv[i][2].t = "arr"

\* _is_tabular
_is_tabular(obj) == Len(obj.kv) = 1 /\ obj.kv[1][2].t = "arr"

\* _is_uniform_array with the length test off by one: len(arr) < 1
_is_uniform_array_AdmitsSingleton(arr) ==
    IF Len(arr.el) < 1 THEN FALSE
    ELSE IF arr.el[1].t # "obj" THEN FALSE
    ELSE \A i \in 2..Len(arr.el) :
            arr.el[i].t = "obj" /\ KeySet(arr.el[i].kv) = KeySet(arr.el[1].kv)

\* _is_uniform_array without the comparison of key sets of line 177
_is_uniform_array_IgnoresKeys(arr) ==
    IF Len(arr.el) <= 1 THEN FALSE
    ELSE IF arr.el[1].t # "obj" THEN FALSE
    ELSE \A i \in 2..Len(arr.el) : arr.el[i].t = "obj"

\* _is_uniform_array comparing list(item.keys()), in order, where line 177
\* compares sets
_is_uniform_array_OrderedKeys(arr) ==
    IF Len(arr.el) <= 1 THEN FALSE
    ELSE IF arr.el[1].t # "obj" THEN FALSE
    ELSE \A i \in 2..Len(arr.el) :
            arr.el[i].t = "obj" /\ Keys(arr.el[i].kv) = Keys(arr.el[1].kv)

\* _is_uniform_array
_is_uniform_array(arr) ==
    IF Len(arr.el) <= 1 THEN FALSE
    ELSE IF arr.el[1].t # "obj" THEN FALSE
    ELSE \A i \in 2..Len(arr.el) :
            arr.el[i].t = "obj" /\ KeySet(arr.el[i].kv) = KeySet(arr.el[1].kv)

\* item.get(col, "")
GetOrEmpty(item, col) == IF HasKey(item.kv, col) THEN Lookup(item.kv, col) ELSE Str(<<>>)

\* the cell without line 118's str(): ",".join then raises TypeError on a cell
\* that is not a string; the exception stands where the cell's text would
TabularObjectCell_NoStr(val) ==
    IF val.t = "str" /\ (HasChar(val.s, ",") \/ HasChar(val.s, SP))
    THEN <<DQ>> \o val.s \o <<DQ>>
    ELSE IF val.t = "str" THEN val.s
    ELSE <<"TypeError">>

\* one cell of _encode_tabular_object, lines 115-118
TabularObjectCell(val) ==
    IF val.t = "str" /\ (HasChar(val.s, ",") \/ HasChar(val.s, SP))
    THEN <<DQ>> \o val.s \o <<DQ>>
    ELSE PyStr(val)

\* one cell of _encode_uniform_array, lines 194-202
UniformArrayCell(val) ==
    IF val.t = "str" /\ (HasChar(val.s, ",") \/ HasChar(val.s, NL))
    THEN <<DQ>> \o Replace(Replace(val.s, <<DQ>>, <<DQ, DQ>>), <<NL>>, <<BS, "n">>) \o <<DQ>>
    ELSE IF val.t = "null" THEN <<"n", "u", "l", "l">>
    ELSE PyStr(val)

\* the items of arr that are dicts, in order
RECURSIVE DictItems(_)
DictItems(el) ==
    IF el = <<>> THEN <<>>
    ELSE IF el[1].t = "obj" THEN <<el[1]>> \o DictItems(Tail(el))
    ELSE DictItems(Tail(el))

\* _encode_uniform_array
_encode_uniform_array(arr) ==
    IF arr.el = <<>> THEN <<"[", "]">>
    ELSE LET columns == Keys(arr.el[1].kv)
             header == <<"[">> \o IntToStr(Len(arr.el)) \o <<"]", "{">>
                          \o Join(columns, <<",">>) \o <<"}", ":">>
             rows == [r \in 1..Len(arr.el) |->
                        <<SP, SP>> \o Join([c \in 1..Len(columns) |->
                                              UniformArrayCell(GetOrEmpty(arr.el[r], columns[c]))],
                                           <<",">>)]
         IN  header \o <<NL>> \o Join(rows, <<NL>>)

RECURSIVE encode(_)
RECURSIVE _encode_object(_)
RECURSIVE _encode_simple_object(_)
RECURSIVE _encode_tabular_object(_)
RECURSIVE _encode_array(_)

\* one line of _encode_simple_object, lines 131-144
SimpleObjectLine(key, value) ==
    IF IsScalar(value) THEN key \o <<":", SP>> \o _encode_simple_value(value)
    ELSE IF value.t = "obj"
         THEN IF value.kv # <<>> /\ max_nesting_depth > 0
              THEN key \o <<":", NL>> \o Spaces(indent_size) \o _encode_object(value)
              ELSE key \o <<":", SP>> \o JsonDumps(value)
    ELSE IF value.el # <<>> /\ max_nesting_depth > 0
         THEN key \o <<":", NL>> \o Spaces(indent_size) \o _encode_array(value)
         ELSE key \o <<":", SP>> \o JsonDumps(value)

\* _encode_simple_object
_encode_simple_object(obj) ==
    Join([i \in 1..Len(obj.kv) |-> SimpleObjectLine(obj.kv[i][1], obj.kv[i][2])], <<NL>>)

\* _encode_tabular_object.  Line 107 reads f"{array_key}[{len(array_value)]}{{...}}:",
\* with "]" and "}" transposed; the header modelled is the one line 188 builds,
\* behind the key: key[N]{c1,...,ck}:
_encode_tabular_object(obj) ==
    LET found == {i \in 1..Len(obj.kv) : obj.kv[i][2].t = "arr" /\ Len(obj.kv[i][2].el) > 0}
    IN  IF found = {} THEN _encode_simple_object(obj)
        ELSE LET first == CHOOSE i \in found : \A j \in found : i <= j
                 array_key == obj.kv[first][1]
                 array_value == obj.kv[first][2].el
             IN  IF array_value[1].t = "obj"
                 THEN LET columns == Keys(array_value[1].kv)
                          header == array_key \o <<"[">> \o IntToStr(Len(array_value))
                                       \o <<"]", "{">> \o Join(columns, <<",">>) \o <<"}", ":">>
                          items == DictItems(array_value)
                          rows == [r \in 1..Len(items) |->
                                     <<SP, SP>> \o Join([c \in 1..Len(columns) |->
                                                           TabularObjectCell(GetOrEmpty(items[r], columns[c]))],
                                                        <<",">>)]
                      IN  header \o <<NL>> \o Join(rows, <<NL>>)
                 ELSE _encode_simple_object(obj)

\* _encode_object
_encode_object(obj) ==
    IF obj.kv = <<>> THEN <<"{", "}">>
    ELSE IF _is_tabular(obj) THEN _encode_tabular_object(obj)
    ELSE _encode_simple_object(obj)

\* _encode_array
_encode_array(arr) ==
    IF arr.el = <<>> THEN <<"[", "]">>
    ELSE IF _is_uniform_array(arr) THEN _encode_uniform_array(arr)
    ELSE Join([i \in 1..Len(arr.el) |-> IntToStr(i - 1) \o <<":", SP>> \o encode(arr.el[i])],
              <<NL>>)

\* TOONEncoder.encode; _get_data_type tests int before bool, so a bool is a
\* NUMBER and is rendered by str()
encode(v) ==
    CASE v.t = "null" -> <<"n", "u", "l", "l">>
      [] v.t = "obj" -> _encode_object(v)
      [] v.t = "arr" -> _encode_array(v)
      [] v.t = "str" -> _encode_string(v.s)
      [] v.t \in {"int", "float", "bool"} -> PyStr(v)

(***************************************************************************)
(* TOONDecoder                                                             *)
(***************************************************************************)
\* float(value) succeeds: value is over digits, "." and "-" with a digit in it
\* (line 345), so it parses iff it is [-]digits[.digits] with at most one "."
FloatParses(value) ==
    LET body == IF StartsWith(value, <<"-">>) THEN Tail(value) ELSE value
    IN  /\ ~HasChar(body, "-")
        /\ Cardinality({i \in 1..Len(body) : body[i] = "."}) <= 1

\* the scalar inference shared by _convert_value (lines 337-348) and
\* _parse_value (lines 402-413)
InferScalar(value) ==
    IF Lower(value) = <<"n", "u", "l", "l">> THEN Null
    ELSE IF Lower(value) = <<"t", "r", "u", "e">> THEN Bool(TRUE)
    ELSE IF Lower(value) = <<"f", "a", "l", "s", "e">> THEN Bool(FALSE)
    ELSE IF IsDigit(value) THEN Integer(StrToNat(value))
    ELSE IF IsDigit(Replace(Replace(value, <<".">>, <<>>), <<"-">>, <<>>))
         THEN IF FloatParses(value) THEN Float(value) ELSE Raise("ValueError")
    ELSE Str(value)

\* _convert_value without the isdigit() branch of line 343: digits go to float()
_convert_value_NoIntBranch(value) ==
    IF IsDigit(value) THEN Float(value) ELSE InferScalar(value)

\* _convert_value
_convert_value(value) == InferScalar(value)

\* _parse_value
_parse_value(value_list) ==
    IF value_list = <<>> THEN Str(<<>>)
    ELSE IF Len(value_list) = 1
         THEN LET value == value_list[1]
              IN  IF StartsWith(value, <<DQ>>) /\ EndsWith(value, <<DQ>>)
                  THEN Str(Replace(Replace(SubSeq(value, 2, Len(value) - 1), <<DQ, DQ>>, <<DQ>>),
                                   <<BS, "n">>, <<NL>>))
                  ELSE InferScalar(value)
    ELSE Str(Join(value_list, <<SP>>))

\* _parse_csv_line: the loop state after the characters of line
RECURSIVE CsvScan(_)
CsvScan(line) ==
    IF line = <<>> THEN [values |-> <<>>, current |-> <<>>, in_quotes |-> FALSE]
    ELSE LET st == CsvScan(SubSeq(line, 1, Len(line) - 1))
             char == line[Len(line)]
         IN  IF st.in_quotes
             THEN IF char = DQ THEN [st EXCEPT !.in_quotes = FALSE]
                  ELSE [st EXCEPT !.current = Append(@, char)]
             ELSE IF char = DQ THEN [st EXCEPT !.in_quotes = TRUE]
             ELSE IF char = "," THEN [st EXCEPT !.values = Append(@, st.current), !.current = <<>>]
             ELSE [st EXCEPT !.current = Append(@, char)]

\* _parse_csv_line
_parse_csv_line(line) == Append(CsvScan(line).values, CsvScan(line).current)

\* _is_tabular_format
_is_tabular_format(first_line) ==
    /\ HasChar(first_line, "[") /\ HasChar(first_line, "]")
    /\ HasChar(first_line, "{") /\ HasChar(first_line, "}")
    /\ EndsWith(first_line, <<":">>)

\* re.match(r'^(.+)\[(\d+)\]\{(.+)\}:', header): the <<i, j, k>> with "[" at i,
\* digits between, "]" at j, "{" at j + 1, "}" at k and ":" at k + 1
HeaderMatches(header) ==
    {m \in Positions(header, "[") \X Positions(header, "]") \X Positions(header, "}") :
        /\ m[1] >= 2
        /\ m[2] > m[1] + 1
        /\ IsDigit(SubSeq(header, m[1] + 1, m[2] - 1))
        /\ m[2] + 1 <= Len(header) /\ header[m[2] + 1] = "{"
        /\ m[3] >= m[2] + 3
        /\ m[3] + 1 <= Len(header) /\ header[m[3] + 1] = ":"}

\* the match the greedy groups pick: the longest key, then the longest column list
HeaderMatch(header) ==
    CHOOSE m \in HeaderMatches(header) :
        \A o \in HeaderMatches(header) : o[1] < m[1] \/ (o[1] = m[1] /\ o[3] <= m[3])

\* one row of _decode_tabular, lines 300-305
DecodeRow(columns, line) ==
    LET obj == DictZip(columns, _parse_csv_line(line))
    IN  [i \in 1..Len(obj) |-> <<obj[i][1], _convert_value(obj[i][2])>>]

\* the stripped non-empty lines among lines, lines 295-298
RECURSIVE RowLines(_)
RowLines(lines) ==
    IF lines = <<>> THEN <<>>
    ELSE IF Strip(lines[1]) = <<>> THEN RowLines(Tail(lines))
    ELSE <<Strip(lines[1])>> \o RowLines(Tail(lines))

\* _decode_key_value: the loop state after lines, lines 352-386; a ValueError
\* of _parse_value ends the loop
RECURSIVE KeyValueScan(_)
KeyValueScan(lines) ==
    IF lines = <<>>
    THEN [result |-> <<>>, has_key |-> FALSE, current_key |-> <<>>, current_value |-> <<>>,
          in_multiline |-> FALSE, raised |-> FALSE]
    ELSE LET st == KeyValueScan(SubSeq(lines, 1, Len(lines) - 1))
             line == RStrip(lines[Len(lines)])
         IN  IF st.raised THEN st
             ELSE IF line = <<>>
                  THEN IF st.in_multiline
                       THEN [st EXCEPT !.current_value = Append(@, <<>>)]
                       ELSE st
             ELSE IF HasChar(line, ":") /\ ~StartsWith(line, <<SP, SP>>) /\ ~StartsWith(line, <<TAB>>)
                  THEN LET saved == IF st.has_key THEN _parse_value(st.current_value) ELSE NoValue
                           parts == SplitOnce(line, ":")
                           value_part == Strip(parts[2])
                       IN  IF saved.t = "raise" THEN [st EXCEPT !.raised = TRUE]
                           ELSE [result |-> IF st.has_key
                                            THEN DictSet(st.result, st.current_key, saved)
                                            ELSE st.result,
                                 has_key |-> TRUE,
                                 current_key |-> Strip(parts[1]),
                                 current_value |-> IF value_part # <<>> THEN <<value_part>> ELSE <<>>,
                                 in_multiline |-> value_part = <<>>,
                                 raised |-> FALSE]
             ELSE [st EXCEPT !.current_value = Append(@, LStrip(line))]

\* _decode_key_value
_decode_key_value(lines) ==
    LET st == KeyValueScan(lines)
        last == IF st.has_key THEN _parse_value(st.current_value) ELSE NoValue
    IN  IF st.raised \/ last.t = "raise" THEN Raise("ValueError")
        ELSE IF st.has_key THEN Obj(DictSet(st.result, st.current_key, last))
        ELSE Obj(st.result)

\* _decode_tabular raising on a header the pattern rejects, instead of line 288
_decode_tabular_RejectsHeader(lines) ==
    IF lines = <<>> THEN Obj(<<>>)
    ELSE IF HeaderMatches(lines[1]) = {} THEN Raise("MalformedInput")
    ELSE LET m == HeaderMatch(lines[1])
             key == SubSeq(lines[1], 1, m[1] - 1)
             columns_str == SubSeq(lines[1], m[2] + 2, m[3] - 1)
             parts == Split(columns_str, ",")
             columns == [i \in 1..Len(parts) |-> Strip(parts[i])]
             rows == RowLines(Tail(lines))
             objs == [r \in 1..Len(rows) |-> DecodeRow(columns, rows[r])]
         IN  IF \E r \in 1..Len(objs) : \E i \in 1..Len(objs[r]) : objs[r][i][2].t = "raise"
             THEN Raise("ValueError")
             ELSE Obj(<< <<Strip(key), Arr([r \in 1..Len(objs) |-> Obj(objs[r])])>> >>)

\* _decode_tabular
_decode_tabular(lines) ==
    IF lines = <<>> THEN Obj(<<>>)
    ELSE IF HeaderMatches(lines[1]) = {} THEN _decode_key_value(lines)
    ELSE LET m == HeaderMatch(lines[1])
             key == SubSeq(lines[1], 1, m[1] - 1)
             columns_str == SubSeq(lines[1], m[2] + 2, m[3] - 1)
             parts == Split(columns_str, ",")
             columns == [i \in 1..Len(parts) |-> Strip(parts[i])]
             rows == RowLines(Tail(lines))
             objs == [r \in 1..Len(rows) |-> DecodeRow(columns, rows[r])]
         IN  IF \E r \in 1..Len(objs) : \E i \in 1..Len(objs[r]) : objs[r][i][2].t = "raise"
             THEN Raise("ValueError")
             ELSE Obj(<< <<Strip(key), Arr([r \in 1..Len(objs) |-> Obj(objs[r])])>> >>)

\* decode with the test of line 264 on the stripped text, so that it returns None
\* on a blank text
decode_NoneOnBlank(toon_str) ==
    LET lines == Split(Strip(toon_str), NL)
    IN  IF Strip(toon_str) = <<>> THEN Null
        ELSE IF _is_tabular_format(lines[1]) THEN _decode_tabular(lines)
        ELSE _decode_key_value(lines)

\* decode handing back the rows of a table without the Object around them
decode_RowsOfTable(toon_str) ==
    LET lines == Split(Strip(toon_str), NL)
        table == _decode_tabular(lines)
    IN  IF lines = <<>> THEN Null
        ELSE IF _is_tabular_format(lines[1])
             THEN IF table.t = "obj" /\ Len(table.kv) = 1 /\ table.kv[1][2].t = "arr"
                  THEN table.kv[1][2]
                  ELSE table
        ELSE _decode_key_value(lines)

\* TOONDecoder.decode
decode(toon_str) ==
    LET lines == Split(Strip(toon_str), NL)
    IN  IF lines = <<>> THEN Null
        ELSE IF _is_tabular_format(lines[1]) THEN _decode_tabular(lines)
        ELSE _decode_key_value(lines)

(***************************************************************************)
(* DroidTOONIntegration, the format selector.  Line 418 reads               *)
(* "class Droid TOONIntegration:"; the class is the DroidTOONIntegration    *)
(* that line 547 constructs.                                               *)
(***************************************************************************)
\* the marker parse_droid_response looks for, line 495
Marker ==
    <<"/", "/", " ", "T", "O", "O", "N", " ", "f", "o", "r", "m", "a", "t">>

\* the line _format_toon puts before the body, line 478
MarkerLine ==
    Marker \o
    <<" ", "-", " ", "3", "0", "-", "6", "0", "%", " ", "t", "o", "k", "e", "n", " ",
        "r", "e", "d", "u", "c", "t", "i", "o", "n">>

\* the line optimize_tool_result puts before a TOON result, line 529
ToolLine(tool_name) ==
    <<"/", "/", " ", "T", "o", "o", "l", ":", " ">> \o tool_name \o
    <<" ", "|", " ", "F", "o", "r", "m", "a", "t", ":", " ", "T", "O", "O", "N">>

\* JSONEncoder(indent=2).encode(v) at nesting level level
RECURSIVE JsonIndent(_, _)
JsonIndent(v, level) ==
    LET inner == Spaces(2 * (level + 1))
        close == <<NL>> \o Spaces(2 * level)
    IN  IF IsScalar(v) THEN JsonDumps(v)
        ELSE IF v.t = "obj"
             THEN IF v.kv = <<>> THEN <<"{", "}">>
                  ELSE <<"{", NL>>
                          \o Join([i \in 1..Len(v.kv) |->
                                     inner \o JsonStr(v.kv[i][1]) \o <<":", SP>>
                                        \o JsonIndent(v.kv[i][2], level + 1)],
                                  <<",", NL>>)
                          \o close \o <<"}">>
        ELSE IF v.el = <<>> THEN <<"[", "]">>
             ELSE <<"[", NL>>
                     \o Join([i \in 1..Len(v.el) |-> inner \o JsonIndent(v.el[i], level + 1)],
                             <<",", NL>>)
                     \o close \o <<"]">>

\* _is_toon_suitable
_is_toon_suitable(v) ==
    IF v.t = "arr"
    THEN Len(v.el) > 1 /\ \A i \in 1..Len(v.el) : i <= 3 => v.el[i].t = "obj"
    ELSE IF v.t = "obj"
         THEN LET tabular_values ==
                      Cardinality({i \in 1..Len(v.kv) :
                                      v.kv[i][2].t = "arr" /\ Len(v.kv[i][2].el) > 1})
              IN  tabular_values > 0
    ELSE FALSE

\* _should_use_toon: in another context than tool_result the loop returns at
\* the first field whose value is a list longer than 2
_should_use_toon(v, context) ==
    IF context = "tool_result" THEN _is_toon_suitable(v)
    ELSE IF v.t = "obj"
         THEN LET long == {i \in 1..Len(v.kv) :
                              v.kv[i][2].t = "arr" /\ Len(v.kv[i][2].el) > 2}
              IN  IF long = {} THEN FALSE
                  ELSE _is_toon_suitable(v.kv[CHOOSE i \in long : \A j \in long : i <= j][2])
    ELSE FALSE

\* _format_toon
_format_toon(v) == MarkerLine \o <<NL>> \o encode(v)

\* _format_json
_format_json(v) == JsonIndent(v, 0)

\* format_for_droid
format_for_droid(v, context) ==
    IF _should_use_toon(v, context) THEN _format_toon(v) ELSE _format_json(v)

\* optimize_tool_result; the metadata dict of lines 518-523 is never used
optimize_tool_result(tool_name, result_data) ==
    LET formatted_result == format_for_droid(result_data, "tool_result")
    IN  IF _should_use_toon(result_data, "tool_result")
        THEN ToolLine(tool_name) \o <<NL>> \o formatted_result
        ELSE formatted_result

\* json.loads(response) for a response of the selector: the JSON text of the
\* value in flight loads back to that value; a text that opens with "//" is
\* not JSON
JsonLoads(response) ==
    IF response = _format_json(data) THEN data ELSE Raise("JSONDecodeError")

\* parse_droid_response without the [1:] of line 497: the marker line is
\* handed to the decoder with the body
parse_droid_response_KeepsMarkerLine(response) ==
    IF StartsWith(Strip(response), Marker)
    THEN decode(Join(Split(response, NL), <<NL>>))
    ELSE IF JsonLoads(response).t = "raise" THEN Str(response)
    ELSE JsonLoads(response)

\* parse_droid_response; a response that is not JSON is returned as it is
parse_droid_response(response) ==
    IF StartsWith(Strip(response), Marker)
    THEN decode(Join(Tail(Split(response, NL)), <<NL>>))
    ELSE IF JsonLoads(response).t = "raise" THEN Str(response)
    ELSE JsonLoads(response)

(***************************************************************************)
(* Inputs                                                                  *)
(***************************************************************************)
\* longest string drawn from StrAlphabet
MaxStrLen == 2

\* most rows of an array or of a table
MaxRows == 2

\* all sequences over S of length at most n
RECURSIVE SeqsUpTo(_, _)
SeqsUpTo(S, n) ==
    IF n = 0 THEN {<<>>}
    ELSE SeqsUpTo(S, n - 1) \cup {Append(q, x) : q \in SeqsUpTo(S, n - 1), x \in S}

StrAlphabet == {",", DQ, NL, BS, "n", SP}

\* the string "a,b"<newline>C, quotes included
ExampleString == <<DQ, "a", ",", "b", DQ, NL, "C">>

StringInputs == SeqsUpTo(StrAlphabet, MaxStrLen) \cup {ExampleString}

IntInputs == {0, 5, 12, -7}

ScalarInputs ==
    {Null, Bool(TRUE), Bool(FALSE)} \cup {Integer(n) : n \in IntInputs}
        \cup {Str(s) : s \in StringInputs}

FieldKeys == {<<"k">>, <<"i", "d">>}

\* {k: s}
FieldInputs == {Obj(<< <<k, Str(s)>> >>) : k \in FieldKeys, s \in StringInputs}

SmallScalars == {Integer(1), Integer(2), Str(<<"x">>), Bool(TRUE), Null}

InnerObjects ==
    {Obj(<< <<<<"c">>, y>> >>) : y \in SmallScalars}
        \cup {Obj(<< <<<<"c">>, y>>, <<<<"d">>, z>> >>) : y \in SmallScalars, z \in SmallScalars}

\* {"a": x, "b": {...}}
MixedInputs == {Obj(<< <<<<"a">>, x>>, <<<<"b">>, o>> >>) : x \in SmallScalars, o \in InnerObjects}

IdCells == {Integer(1), Integer(2)}

NameCells == {Str(<<"A", "l", "i", "c", "e">>), Str(<<"B", "o", "b">>), Str(<<"a", ",", "b">>), Null}

\* rows with the keys id and name, rows with the key id alone, and a non-Object
ElementInputs ==
    {Obj(<< <<<<"i", "d">>, i>>, <<<<"n", "a", "m", "e">>, n>> >>) : i \in IdCells, n \in NameCells}
        \cup {Obj(<< <<<<"i", "d">>, i>> >>) : i \in IdCells}
        \cup {Integer(1)}

ArrayInputs == {Arr(el) : el \in SeqsUpTo(ElementInputs, MaxRows) \ {<<>>}}

\* {"items": a}
WrapperInputs == {Obj(<< <<<<"i", "t", "e", "m", "s">>, a>> >>) : a \in ArrayInputs}

\* {"t": 1, "items": a}
TwoFieldInputs ==
    {Obj(<< <<<<"t">>, Integer(1)>>, <<<<"i", "t", "e", "m", "s">>, a>> >>) : a \in ArrayInputs}

\* {"k": c} for the scalars that are not strings
ScalarFieldInputs == {Obj(<< <<<<"k">>, c>> >>) : c \in {x \in ScalarInputs : x.t # "str"}}

\* [{"v": c}, {"v": c}]: a one-column table whose cells are the scalar c
CellTables == {Arr(<<Obj(<< <<<<"v">>, c>> >>), Obj(<< <<<<"v">>, c>> >>)>>) : c \in ScalarInputs}

\* {"items": [{"v": c}, {"v": c}]}
CellWrappers == {Obj(<< <<<<"i", "t", "e", "m", "s">>, a>> >>) : a \in CellTables}

\* deepest chain of containers handed to the encoder
MaxChainDepth == 5

\* {"n": {"n": ... {"c": 1}}}: k Objects around the innermost one
RECURSIVE ObjChain(_)
ObjChain(k) ==
    IF k = 0 THEN Obj(<< <<<<"c">>, Integer(1)>> >>)
    ELSE Obj(<< <<<<"n">>, ObjChain(k - 1)>> >>)

\* [[... [1]]]: k Arrays around the innermost one
RECURSIVE ArrChain(_)
ArrChain(k) == IF k = 0 THEN Arr(<<Integer(1)>>) ELSE Arr(<<ArrChain(k - 1)>>)

ChainInputs == {ObjChain(k) : k \in 1..MaxChainDepth} \cup {ArrChain(k) : k \in 1..MaxChainDepth}

LeafInputs == {Null, Integer(1), Str(<<"x">>)}

\* the Objects over the keys a and b, in that order, with values from S
ObjectsOver(S) ==
    {Obj(<<>>)} \cup {Obj(<< <<<<"a">>, x>> >>) : x \in S}
        \cup {Obj(<< <<<<"a">>, x>>, <<<<"b">>, y>> >>) : x \in S, y \in S}

\* leaves, the Objects over leaves and the Arrays of up to MaxRows leaves
ShallowInputs ==
    LeafInputs \cup ObjectsOver(LeafInputs)
        \cup {Arr(el) : el \in SeqsUpTo(LeafInputs, MaxRows)}

\* Objects and Arrays of one or two shallow values: every mix of scalars,
\* Objects and Arrays, empty ones included, two levels deep
NestedInputs ==
    ObjectsOver(ShallowInputs)
        \cup {Arr(<<x>>) : x \in ShallowInputs}
        \cup {Arr(<<x, y>>) : x \in ShallowInputs, y \in ShallowInputs}

\* cell values: the scalars, an Array and an Object
CellValues ==
    ScalarInputs \cup {Arr(<<Integer(1), Integer(2)>>),
                       Obj(<< <<<<"a">>, Integer(1)>>, <<<<"b">>, Integer(2)>> >>)}

\* [{"v": c, "w": 1}, {"v": c, "w": 1}]: a two-column table with the cell c
PairTables ==
    {Arr(<<Obj(<< <<<<"v">>, c>>, <<<<"w">>, Integer(1)>> >>),
           Obj(<< <<<<"v">>, c>>, <<<<"w">>, Integer(1)>> >>)>>) : c \in CellValues}

\* {"items": [{"v": c, "w": 1}, {"v": c, "w": 1}]}
PairWrappers == {Obj(<< <<<<"i", "t", "e", "m", "s">>, a>> >>) : a \in PairTables}

\* [c, 1]: a non-uniform Array with the scalar c as an element
MixedArrays == {Arr(<<c, Integer(1)>>) : c \in {x \in ScalarInputs : x.t # "str"}}

\* Objects over the keys a and b in either order
KeyOrderRows ==
    {Obj(<< <<<<"a">>, Integer(1)>>, <<<<"b">>, Integer(2)>> >>),
     Obj(<< <<<<"b">>, Integer(2)>>, <<<<"a">>, Integer(1)>> >>),
     Obj(<< <<<<"a">>, Integer(1)>> >>)}

\* Arrays of two such Objects
KeyOrderInputs == {Arr(<<x, y>>) : x \in KeyOrderRows, y \in KeyOrderRows}

\* {"items": [{"v": c, "w": 1}, row]} where row lacks the column w, the column
\* v, or both
MissingFieldInputs ==
    UNION {{Obj(<< <<<<"i", "t", "e", "m", "s">>,
                     Arr(<<Obj(<< <<<<"v">>, c>>, <<<<"w">>, Integer(1)>> >>), row>>)>> >>) :
               row \in {Obj(<< <<<<"v">>, c>> >>), Obj(<< <<<<"w">>, Integer(2)>> >>),
                        Obj(<<>>)}} :
           c \in ScalarInputs}

EncoderInputs ==
    MissingFieldInputs \cup KeyOrderInputs \cup MixedArrays \cup ScalarInputs \cup FieldInputs \cup MixedInputs \cup ArrayInputs \cup WrapperInputs
        \cup TwoFieldInputs \cup ScalarFieldInputs \cup CellTables \cup CellWrappers
        \cup ChainInputs \cup NestedInputs \cup PairTables \cup PairWrappers

\* a text for the decoder, kept by its parts: a header line key[count]{columns}:
\* (form "normal"), key]count[{columns}: (form "brackets") or
\* key[count]}columns{: (form "braces"), then one line per row, the fields of a
\* row joined by commas
TableKeys == {<<"i", "t", "e", "m", "s">>, <<>>}

TableCounts == {<<"2">>, <<"x">>, <<>>}

TableColumns == {<< <<"i", "d">>, <<"n", "a", "m", "e">> >>, << <<"a">> >>, <<>>}

TableForms == {"normal", "brackets", "braces"}

TableRows ==
    {<< <<"1">>, <<"A", "l", "i", "c", "e">> >>, << <<"2">>, <<"B", "o", "b">> >>,
     << <<"1", "2">> >>, << <<"7">>, <<"x">>, <<"y">> >>, << <<"1", "-", "2">> >>}

TableInputs ==
    {[t |-> "table", key |-> k, count |-> c, columns |-> cols, form |-> f, indent |-> ind,
      rows |-> rows] :
        k \in TableKeys, c \in TableCounts, cols \in TableColumns, f \in TableForms,
        ind \in BOOLEAN, rows \in SeqsUpTo(TableRows, MaxRows)}

HeaderText(table) ==
    CASE table.form = "normal" ->
            table.key \o <<"[">> \o table.count \o <<"]", "{">>
                \o Join(table.columns, <<",">>) \o <<"}", ":">>
      [] table.form = "brackets" ->
            table.key \o <<"]">> \o table.count \o <<"[", "{">>
                \o Join(table.columns, <<",">>) \o <<"}", ":">>
      [] table.form = "braces" ->
            table.key \o <<"[">> \o table.count \o <<"]", "}">>
                \o Join(table.columns, <<",">>) \o <<"{", ":">>

TableText(table) ==
    Join(<<HeaderText(table)>>
            \o [r \in 1..Len(table.rows) |->
                  (IF table.indent THEN <<SP, SP>> ELSE <<>>) \o Join(table.rows[r], <<",">>)],
         <<NL>>)

\* longest unquoted scalar text handed to the decoder
MaxScalarLen == 4

ScalarAlphabet == {"1", "-", ".", "x"}

\* an unquoted scalar text v, as the inline value of a key (a: v) or as the cell
\* of a one-column table (items[1]{a}: and the row v)
ScalarTextInputs ==
    {[t |-> "scalar", v |-> v, place |-> p] :
        v \in SeqsUpTo(ScalarAlphabet, MaxScalarLen) \ {<<>>}, p \in {"inline", "cell"}}

ScalarText(sc) ==
    IF sc.place = "inline" THEN <<"a", ":", SP>> \o sc.v
    ELSE <<"i", "t", "e", "m", "s", "[", "1", "]", "{", "a", "}", ":", NL, SP, SP>> \o sc.v

\* longest Array handed to the format selector
MaxListLen == 4

SelectorRow == Obj(<< <<<<"i", "d">>, Integer(1)>> >>)

\* the Arrays of up to MaxListLen elements, each the Integer 1 or an Object
ListShapes == {Arr(el) : el \in SeqsUpTo({Integer(1), SelectorRow}, MaxListLen)}

\* field values: a scalar, an Array, or an Object that holds an Array of three
\* Objects one level further down
FieldShapes ==
    ListShapes \cup {Integer(1),
                     Obj(<< <<<<"n">>, Arr(<<SelectorRow, SelectorRow, SelectorRow>>)>> >>)}

SelectorInputs == ListShapes \cup {Integer(1)} \cup (ObjectsOver(FieldShapes) \ {Obj(<<>>)})

Contexts == {"tool_result", "prompt"}

ToolNames == {<<"l", "i", "s", "t", "_", "u", "s", "e", "r", "s">>}

\* texts that are empty after trimming
BlankTexts == SeqsUpTo(Whitespace, MaxStrLen)

(***************************************************************************)
(* The state machine: a caller encodes a value and decodes the text, or    *)
(* hands the decoder a text of its own.                                    *)
(***************************************************************************)
Init ==
    /\ pc = "idle"
    /\ data = NoValue
    /\ text = <<>>
    /\ result = NoValue
    /\ op = "none"
    /\ call_context = "none"

\* TOONEncoder.encode(data)
Encode ==
    /\ pc = "idle"
    /\ \E v \in EncoderInputs :
          /\ data' = v
          /\ text' = encode(v)
    /\ pc' = "encoded"
    /\ UNCHANGED <<result, op, call_context>>

\* a table text arrives
ReceiveTable ==
    /\ pc = "idle"
    /\ \E table \in TableInputs :
          /\ data' = table
          /\ text' = TableText(table)
    /\ pc' = "received"
    /\ UNCHANGED <<result, op, call_context>>

\* a key/value line or a one-row table with an unquoted scalar arrives
ReceiveScalar ==
    /\ pc = "idle"
    /\ \E sc \in ScalarTextInputs :
          /\ data' = sc
          /\ text' = ScalarText(sc)
    /\ pc' = "received"
    /\ UNCHANGED <<result, op, call_context>>

\* a blank text arrives
ReceiveBlank ==
    /\ pc = "idle"
    /\ \E b \in BlankTexts :
          /\ data' = [t |-> "blank"]
          /\ text' = b
    /\ pc' = "received"
    /\ UNCHANGED <<result, op, call_context>>

\* TOONDecoder.decode(text)
Decode ==
    /\ pc \in {"encoded", "received"}
    /\ result' = decode(text)
    /\ pc' = "decoded"
    /\ UNCHANGED <<data, text, op, call_context>>

\* DroidTOONIntegration.format_for_droid(data, context)
Format ==
    /\ pc = "idle"
    /\ \E v \in SelectorInputs, c \in Contexts :
          /\ data' = v
          /\ call_context' = c
          /\ text' = format_for_droid(v, c)
    /\ op' = "format_for_droid"
    /\ pc' = "formatted"
    /\ UNCHANGED result

\* DroidTOONIntegration.optimize_tool_result(tool_name, result_data)
Optimize ==
    /\ pc = "idle"
    /\ \E v \in SelectorInputs, tool_name \in ToolNames :
          /\ data' = v
          /\ text' = optimize_tool_result(tool_name, v)
    /\ call_context' = "tool_result"
    /\ op' = "optimize_tool_result"
    /\ pc' = "formatted"
    /\ UNCHANGED result

\* DroidTOONIntegration._format_toon(data)
FormatToon ==
    /\ pc = "idle"
    /\ \E v \in EncoderInputs :
          /\ data' = v
          /\ text' = _format_toon(v)
    /\ op' = "_format_toon"
    /\ pc' = "formatted"
    /\ UNCHANGED <<result, call_context>>

\* DroidTOONIntegration.parse_droid_response(text)
Parse ==
    /\ pc = "formatted"
    /\ result' = parse_droid_response(text)
    /\ pc' = "parsed"
    /\ UNCHANGED <<data, text, op, call_context>>

Next ==
    \/ Encode \/ ReceiveTable \/ ReceiveScalar \/ ReceiveBlank \/ Decode
    \/ Format \/ Optimize \/ FormatToon \/ Parse

Spec == Init /\ [][Next]_vars

(***************************************************************************)
(* Properties                                                              *)
(***************************************************************************)
\* sub occurs in s
Contains(s, sub) == \E i \in 1..(Len(s) - Len(sub) + 1) : SubSeq(s, i, i + Len(sub) - 1) = sub

\* some line of txt is a tabular header declaring n rows: ...[n]{...}:
HasTabularHeader(txt, n) ==
    \E i \in 1..Len(Split(txt, NL)) :
        /\ Contains(Split(txt, NL)[i], <<"[">> \o IntToStr(n) \o <<"]", "{">>)
        /\ EndsWith(Split(txt, NL)[i], <<"}", ":">>)

\* an Array of two or more Objects that share one key set
UniformArray(v) ==
    /\ v.t = "arr"
    /\ Len(v.el) >= 2
    /\ \A i \in 1..Len(v.el) : v.el[i].t = "obj" /\ KeySet(v.el[i].kv) = KeySet(v.el[1].kv)

\* C1: for every Array a of two or more Objects sharing one key set,
\* decode(encode(a)) is an Array equal to a.
C1_UniformArrayRoundTrip == (pc = "decoded" /\ UniformArray(data)) => SameValue(result, data)

\* C2: for every Null, Boolean, Integer or String v given to encode directly,
\* decode(encode(v)) equals v.
C2_ScalarRoundTrip == (pc = "decoded" /\ IsScalar(data)) => SameValue(result, data)

\* an Object with a scalar field and a field holding a non-empty Object
MixedNested(v) ==
    /\ v.t = "obj"
    /\ \E i \in 1..Len(v.kv) : IsScalar(v.kv[i][2])
    /\ \E i \in 1..Len(v.kv) : v.kv[i][2].t = "obj" /\ v.kv[i][2].kv # <<>>

\* C3: for an Object with a scalar field and a field whose value is a non-empty
\* Object, decode(encode(o)) equals o.
C3_MixedNestedRoundTrip == (pc = "decoded" /\ MixedNested(data)) => SameValue(result, data)

\* an Object {k: s} with s a String
StringField(v) == v.t = "obj" /\ Len(v.kv) = 1 /\ v.kv[1][2].t = "str"

\* C4: for every key k and every string s over comma, double quote, newline,
\* backslash, n and space, decode(encode({k: s})) equals {k: s}.
C4_StringFieldRoundTrip == (pc = "decoded" /\ StringField(data)) => SameValue(result, data)

\* a well-formed header: brackets and braces in place, a row count of digits,
\* at least one column
WellFormedHeader(table) ==
    table.form = "normal" /\ IsDigit(table.count) /\ table.columns # <<>>

IsLetter(c) ==
    \E i \in 1..Len(UpperCase) : UpperCase[i] = c \/ LowerCase[i] = c

\* a field that is all digits, or a word of letters other than null, true, false
WordField(f) ==
    \/ IsDigit(f)
    \/ /\ f # <<>>
       /\ \A i \in 1..Len(f) : IsLetter(f[i])
       /\ Lower(f) \notin {<<"n", "u", "l", "l">>, <<"t", "r", "u", "e">>, <<"f", "a", "l", "s", "e">>}

WordRows(table) ==
    \A r \in 1..Len(table.rows) : \A i \in 1..Len(table.rows[r]) : WordField(table.rows[r][i])

\* cell is what the field f of a row stands for: the Integer whose decimal form
\* is f, or the String f
CellOf(cell, f) ==
    IF IsDigit(f) THEN cell.t = "int" /\ IntToStr(cell.n) = f ELSE cell = Str(f)

\* row is the Object that maps the columns, in order, to the fields
RowOf(row, columns, fields) ==
    /\ row.t = "obj"
    /\ Len(row.kv) = (IF Len(columns) < Len(fields) THEN Len(columns) ELSE Len(fields))
    /\ \A i \in 1..Len(row.kv) : row.kv[i][1] = columns[i] /\ CellOf(row.kv[i][2], fields[i])

\* C5: a text whose first line is <key>[N]{c1,...,ck}: followed by row lines
\* decodes to an Object with the single key <key> mapped to an Array of one
\* Object per row, the columns mapped positionally to the row's fields, all-digit
\* fields as Integers and other words as Strings.
C5_KeyedHeaderParse ==
    (pc = "decoded" /\ data.t = "table" /\ WellFormedHeader(data) /\ data.key # <<>>
        /\ WordRows(data))
    => /\ result.t = "obj"
       /\ Keys(result.kv) = <<data.key>>
       /\ result.kv[1][2].t = "arr"
       /\ Len(result.kv[1][2].el) = Len(data.rows)
       /\ \A r \in 1..Len(data.rows) : RowOf(result.kv[1][2].el[r], data.columns, data.rows[r])

\* items[2]{id,name}: with the rows 1,Alice and 2,Bob has been decoded to
\* {"items": [{"id": 1, "name": "Alice"}, {"id": 2, "name": "Bob"}]}
C5_Witness ==
    /\ pc = "decoded"
    /\ data.t = "table"
    /\ HeaderText(data) = <<"i", "t", "e", "m", "s", "[", "2", "]", "{", "i", "d", ",",
                            "n", "a", "m", "e", "}", ":">>
    /\ data.rows = << << <<"1">>, <<"A", "l", "i", "c", "e">> >>, << <<"2">>, <<"B", "o", "b">> >> >>
    /\ result = Obj(<< <<<<"i", "t", "e", "m", "s">>,
                         Arr(<<Obj(<< <<<<"i", "d">>, Integer(1)>>,
                                      <<<<"n", "a", "m", "e">>, Str(<<"A", "l", "i", "c", "e">>)>> >>),
                               Obj(<< <<<<"i", "d">>, Integer(2)>>,
                                      <<<<"n", "a", "m", "e">>, Str(<<"B", "o", "b">>)>> >>)>>)>> >>)

ArrayOfLen(v, n) == v.t = "arr" /\ Len(v.el) = n

\* v is an Array of two Objects with differing key sets
DifferingPair(v) ==
    /\ ArrayOfLen(v, 2)
    /\ v.el[1].t = "obj" /\ v.el[2].t = "obj"
    /\ KeySet(v.el[1].kv) # KeySet(v.el[2].kv)

\* v is the sole field of the Object o
SoleFieldOf(o, v) == o.t = "obj" /\ Len(o.kv) = 1 /\ o.kv[1][2] = v

\* the Arrays of the input: the input itself and the values of its fields
InputArrays ==
    IF data.t = "arr" THEN {data}
    ELSE IF data.t = "obj"
         THEN {data.kv[i][2] : i \in {j \in 1..Len(data.kv) : data.kv[j][2].t = "arr"}}
    ELSE {}

\* C7: an Array of length 1 is never tabular-encoded, as the top-level value or
\* as the value of an Object field, the sole field of an Object included: the
\* output has no header line [1]{...}: for it.
C7_SingletonNeverTabular ==
    (pc = "encoded" /\ \E a \in InputArrays : ArrayOfLen(a, 1)) => ~HasTabularHeader(text, 1)

\* C7, amended: an Array of length 1 is not tabular-encoded when it is the
\* top-level value or a field of an Object with two or more fields; when it is
\* the sole field of an Object and its element is an Object, the output does
\* carry the header key[1]{...}:.
C7_SingletonTabularOnlyAsSoleField ==
    \A a \in InputArrays :
        (pc = "encoded" /\ ArrayOfLen(a, 1))
        => (HasTabularHeader(text, 1) <=> (SoleFieldOf(data, a) /\ a.el[1].t = "obj"))

\* {"items": [{...}]} has been encoded with a header items[1]{...}:
C7_Witness ==
    /\ pc = "encoded"
    /\ \E a \in InputArrays : ArrayOfLen(a, 1) /\ SoleFieldOf(data, a) /\ a.el[1].t = "obj"
    /\ HasTabularHeader(text, 1)

\* C8: an Array of two Objects with differing key sets is never tabular-encoded,
\* as the top-level value or as the value of an Object field, the sole field of
\* an Object included.
C8_DifferingKeysNeverTabular ==
    (pc = "encoded" /\ \E a \in InputArrays : DifferingPair(a)) => ~HasTabularHeader(text, 2)

\* C8, amended: an Array of two Objects with differing key sets is not
\* tabular-encoded when it is the top-level value or a field of an Object with
\* two or more fields; when it is the sole field of an Object the output does
\* carry the header key[2]{...}: with the first element's keys as columns.
C8_DifferingKeysTabularOnlyAsSoleField ==
    \A a \in InputArrays :
        (pc = "encoded" /\ DifferingPair(a))
        => /\ HasTabularHeader(text, 2) <=> SoleFieldOf(data, a)
           /\ SoleFieldOf(data, a)
              => Split(text, NL)[1] = data.kv[1][1] \o <<"[", "2", "]", "{">>
                                         \o Join(Keys(a.el[1].kv), <<",">>) \o <<"}", ":">>

\* {"items": [{id, name}, {id}]} has been encoded with a header items[2]{id,name}:
C8_Witness ==
    /\ pc = "encoded"
    /\ \E a \in InputArrays : DifferingPair(a) /\ SoleFieldOf(data, a)
    /\ HasTabularHeader(text, 2)

\* C9: when the first line is a tabular header with an empty key,
\* [N]{c1,...,ck}:, decode returns the Array of row Objects directly; when a key
\* is present it returns an Object with that single key.
C9_BareHeaderDecodesToArray ==
    (pc = "decoded" /\ data.t = "table" /\ WellFormedHeader(data) /\ WordRows(data))
    => IF data.key = <<>>
       THEN result.t = "arr"
       ELSE result.t = "obj" /\ Keys(result.kv) = <<data.key>>

\* a header that is detected as tabular but whose row count is not a number,
\* whose delimiters are out of place or whose column list is empty
MalformedHeader(table) ==
    /\ _is_tabular_format(HeaderText(table))
    /\ table.form # "normal" \/ ~IsDigit(table.count) \/ table.columns = <<>>

ContinuationLines(table) == [r \in 1..Len(table.rows) |-> Join(table.rows[r], <<",">>)]

MatchesInt(v) == IsDigit(IF StartsWith(v, <<"-">>) THEN Tail(v) ELSE v)

\* v matches ^-?\d*\.\d+$
MatchesFloat(v) ==
    LET body == IF StartsWith(v, <<"-">>) THEN Tail(v) ELSE v
        whole == SubSeq(body, 1, FirstIndex(body, ".") - 1)
    IN  /\ HasChar(body, ".")
        /\ (whole = <<>> \/ IsDigit(whole))
        /\ IsDigit(Drop(body, FirstIndex(body, ".")))

\* what decoding the scalar text sc gives when its value is read as val
ScalarResult(sc, val) ==
    IF sc.place = "inline" THEN Obj(<< <<<<"a">>, val>> >>)
    ELSE Obj(<< <<<<"i", "t", "e", "m", "s">>, Arr(<<Obj(<< <<<<"a">>, val>> >>)>>)>> >>)

\* C11: every unquoted scalar text v, a tabular cell or an inline value, that is
\* not null/true/false and matches neither ^-?\d+$ nor ^-?\d*\.\d+$ is returned
\* as the String v, and the decode call does not fail.
C11_UnparseableScalarIsString ==
    (pc = "decoded" /\ data.t = "scalar" /\ ~MatchesInt(data.v) /\ ~MatchesFloat(data.v))
    => result = ScalarResult(data, Str(data.v))

\* {"k": n} with n an Integer
IntegerField == data.t = "obj" /\ Len(data.kv) = 1 /\ data.kv[1][2].t = "int"

\* {"items": [{"v": n}, {"v": n}]} with n an Integer
IntegerCells == data \in CellWrappers /\ data.kv[1][2].el[1].kv[1][2].t = "int"

\* C12: every integer-valued number n, negative ones included, encoded as an
\* Object field value or as a tabular cell decodes back to an Integer equal to n.
C12_IntegerKindPreserved ==
    (pc = "decoded" /\ (IntegerField \/ IntegerCells)) => result = data

\* the container k levels below the top of a chain
RECURSIVE Descend(_, _)
Descend(v, k) ==
    IF k = 0 THEN v ELSE Descend(IF v.t = "obj" THEN v.kv[1][2] ELSE v.el[1], k - 1)

\* the level of the innermost container of a chain, the top being level 0
RECURSIVE InnermostLevel(_)
InnermostLevel(v) ==
    LET child == IF v.t = "obj" THEN v.kv[1][2] ELSE v.el[1]
    IN  IF IsScalar(child) THEN 0 ELSE 1 + InnermostLevel(child)

\* C13: with max_nesting_depth = d, an Object or Array more than d levels below
\* the top-level value is rendered in its plain JSON form; the encoder does not
\* recurse into it.
C13_DeepContainerIsJson ==
    (pc = "encoded" /\ data \in ChainInputs /\ InnermostLevel(data) > max_nesting_depth)
    => Contains(text, JsonDumps(Descend(data, max_nesting_depth + 1)))

\* the characters of a text
Characters ==
    DigitSet \cup {UpperCase[i] : i \in 1..Len(UpperCase)}
        \cup {LowerCase[i] : i \in 1..Len(LowerCase)} \cup Whitespace
        \cup {DQ, BS, "'", ",", ":", ".", "-", "[", "]", "{", "}", "/", "|", "%", "_"}

\* the outcome of a call is a text, not an exception
IsText(outcome) == \A i \in 1..Len(outcome) : outcome[i] \in Characters

\* C14: encode is total: for every well-formed Value (scalars, Objects, Arrays,
\* empty or nested, rows that are not Objects included) the call returns a
\* text; there is no error outcome.
C14_EncodeIsTotal == pc = "encoded" => IsText(text)

\* a table under a key whose first row is an Object and whose second is not,
\* with a cell that is not a string, has been encoded
C14_Witness ==
    /\ pc = "encoded"
    /\ data \in WrapperInputs
    /\ Len(data.kv[1][2].el) = 2
    /\ data.kv[1][2].el[1].t = "obj"
    /\ data.kv[1][2].el[1].kv[1][2].t = "int"
    /\ data.kv[1][2].el[2].t = "int"

\* the tool-result rule: an Array of two or more elements whose first three
\* are Objects, or an Object with a field that is an Array of two or more
\* Objects
ToolResultRule(v) ==
    \/ /\ v.t = "arr"
       /\ Len(v.el) > 1
       /\ \A i \in 1..Len(v.el) : i <= 3 => v.el[i].t = "obj"
    \/ /\ v.t = "obj"
       /\ \E i \in 1..Len(v.kv) :
             /\ v.kv[i][2].t = "arr"
             /\ Len(v.kv[i][2].el) > 1
             /\ \A j \in 1..Len(v.kv[i][2].el) : v.kv[i][2].el[j].t = "obj"

\* the selector chose the terse encoding for the formatted value
ChoseToon == StartsWith(text, MarkerLine)

\* C15: in the tool_result context the terse encoding is chosen iff the value
\* is an Array of length > 1 whose first (up to three) elements are Objects, or
\* an Object with a field whose value is an Array of length > 1 with Object
\* elements; {"ids": [1, 2, 3]} is not selected.
C15_ToolResultSelection ==
    (pc = "formatted" /\ op = "format_for_droid" /\ call_context = "tool_result")
    => (ChoseToon <=> ToolResultRule(data))

\* the rule of the other contexts: an Object with a direct field that is an
\* Array of more than two elements, itself suitable by the tool-result rule
OtherContextRule(v) ==
    /\ v.t = "obj"
    /\ \E i \in 1..Len(v.kv) :
          /\ v.kv[i][2].t = "arr"
          /\ Len(v.kv[i][2].el) > 2
          /\ ToolResultRule(v.kv[i][2])

\* C16: in every context other than tool_result the terse encoding is chosen
\* iff the value is an Object with some direct field whose value is an Array of
\* length > 2 suitable by the tool-result rule, whatever the order of the fields.
C16_OtherContextSelection ==
    (pc = "formatted" /\ op = "format_for_droid" /\ call_context # "tool_result")
    => (ChoseToon <=> OtherContextRule(data))

\* the first line of the formatted text
FirstLine == Split(text, NL)[1]

\* C17: every text format_for_droid or optimize_tool_result emits for tersely
\* encoded data has // TOON format at the start of its first line, the JSON
\* fallback does not, and parse_droid_response of a terse text goes to the
\* decoder: it returns a decoded structure, not the raw text.
C17_MarkerLeadsTerseOutput ==
    /\ (pc = "formatted" /\ op \in {"format_for_droid", "optimize_tool_result"})
       => (StartsWith(FirstLine, Marker) <=> _should_use_toon(data, call_context))
    /\ (pc = "parsed" /\ op \in {"format_for_droid", "optimize_tool_result"}
          /\ _should_use_toon(data, call_context))
       => result = decode(encode(data))

\* C18: for every body b that encode produces, parse_droid_response of the
\* marker line followed by b returns what decode(b) returns: the decoder does
\* not need the marker.
C18_MarkerNotNeeded ==
    (pc = "parsed" /\ op = "_format_toon") => result = decode(encode(data))

\* a marked table under a key has been parsed back into an Object
C18_Witness ==
    /\ pc = "parsed"
    /\ op = "_format_toon"
    /\ data \in WrapperInputs
    /\ HasTabularHeader(encode(data), Len(data.kv[1][2].el))
    /\ result.t = "obj"
    /\ result.kv[1][2].t = "arr"

\* the string s as the cell of both rows of a one-column table
StringCell(s) ==
    \/ data = Arr(<<Obj(<< <<<<"v">>, Str(s)>> >>), Obj(<< <<<<"v">>, Str(s)>> >>)>>)
    \/ data = Obj(<< <<<<"i", "t", "e", "m", "s">>,
                      Arr(<<Obj(<< <<<<"v">>, Str(s)>> >>), Obj(<< <<<<"v">>, Str(s)>> >>)>>)>> >>)

\* s between double quotes, its quotes doubled and its newlines written \n
EscapedCell(s) ==
    <<DQ>> \o Replace(Replace(s, <<DQ>>, <<DQ, DQ>>), <<NL>>, <<BS, "n">>) \o <<DQ>>

\* C20: in both tabular forms a string cell that contains a comma, a newline or
\* a double quote is written between double quotes with its quotes doubled and
\* its newlines as backslash-n, and the decoder's row parsing returns exactly
\* that string.
C20_TabularCellEscaping ==
    \A s \in StringInputs :
        (pc = "encoded" /\ StringCell(s) /\ (\E c \in {",", NL, DQ} : HasChar(s, c)))
        => /\ text = Split(text, NL)[1] \o <<NL, SP, SP>> \o EscapedCell(s)
                         \o <<NL, SP, SP>> \o EscapedCell(s)
           /\ _parse_csv_line(EscapedCell(s)) = <<s>>

\* the two-column tables and one-column tables, with and without a key
CellTableEncoded ==
    pc = "encoded" /\ data \in CellTables \cup CellWrappers \cup PairTables \cup PairWrappers

\* the Array of rows of a table input
TableOf(v) == IF v.t = "arr" THEN v ELSE v.kv[1][2]

\* the lines of txt after its header line
RowLinesOf(txt) == Tail(Split(txt, NL))

\* C21: every row line emitted under a header with k columns splits, under
\* _parse_csv_line, into exactly k fields, whatever the cells hold (strings with
\* commas, quotes or spaces, Arrays, Objects).
C21_RowArity ==
    CellTableEncoded
    => \A i \in 1..Len(RowLinesOf(text)) :
          Len(_parse_csv_line(Strip(RowLinesOf(text)[i]))) = Len(TableOf(data).el[1].kv)

\* a uniform Array that the encoder has rendered as a bare table
BareTableEncoded == pc = "encoded" /\ UniformArray(data)

\* C22: for every key k and every uniform Array a, the row lines of
\* encode({k: a}) are, line for line, the row lines of encode(a); the headers
\* differ by the leading key only.
C22_TabularFormsAgree ==
    BareTableEncoded
    => \A k \in FieldKeys :
          LET keyed == encode(Obj(<< <<k, data>> >>))
          IN  /\ RowLinesOf(keyed) = RowLinesOf(text)
              /\ Split(keyed, NL)[1] = k \o Split(text, NL)[1]

\* the Boolean b has been encoded at the top level, as a field value, as an
\* element of a mixed Array, or as the cell of a table
BoolPlaced(b) ==
    /\ pc = "encoded"
    /\ \/ data = Bool(b)
       \/ data = Obj(<< <<<<"k">>, Bool(b)>> >>)
       \/ data = Arr(<<Bool(b), Integer(1)>>)
       \/ data \in CellTables \cup CellWrappers /\ TableOf(data).el[1].kv[1][2] = Bool(b)

\* the lowercase literal of b
BoolLiteral(b) == IF b THEN <<"t", "r", "u", "e">> ELSE <<"f", "a", "l", "s", "e">>

\* C23: a Boolean is rendered as the lowercase literal true or false wherever
\* the encoder emits it: top level, Object field, element of a non-uniform
\* Array, cell of either tabular form.
C23_BooleanLiteral ==
    \A b \in BOOLEAN :
        BoolPlaced(b) => Contains(text, BoolLiteral(b))

\* Null has been encoded at the top level, as a field value, as an element of
\* a mixed Array, or as the cell of a table
NullPlaced ==
    \/ data = Null
    \/ data = Obj(<< <<<<"k">>, Null>> >>)
    \/ data = Arr(<<Null, Integer(1)>>)
    \/ data \in CellTables \cup CellWrappers /\ TableOf(data).el[1].kv[1][2] = Null

\* C24: Null is rendered as the literal null wherever the encoder emits it (top
\* level, Object field, Array element, cell of either tabular form), and a Null
\* cell of the keyed table decodes back to Null, not to a String.
C24_NullLiteral ==
    /\ (pc = "encoded" /\ NullPlaced) => Contains(text, <<"n", "u", "l", "l">>)
    /\ (pc = "decoded" /\ NullPlaced /\ data \in CellWrappers) => result = data

\* an Object of two fields whose second value is a non-empty Object or Array
NestedField == data \in MixedInputs \cup TwoFieldInputs

\* the lines of txt that start at column 0
UnindentedLines(txt) == {i \in 1..Len(Split(txt, NL)) : ~StartsWith(Split(txt, NL)[i], <<SP>>)}

\* C25: when a field's value is a non-empty Object or Array, every line of the
\* value's rendering follows the key: line with leading indentation: only the
\* lines of the Object's own keys start at column 0, and the decoder reads no
\* nested line as a top-level key.
C25_NestedBlockIndented ==
    /\ (pc = "encoded" /\ NestedField) => Cardinality(UnindentedLines(text)) = Len(data.kv)
    /\ (pc = "decoded" /\ NestedField /\ result.t = "obj") => KeySet(result.kv) = KeySet(data.kv)

\* a non-empty Object has been encoded
ObjectEncoded == pc = "encoded" /\ data.t = "obj" /\ data.kv # <<>>

\* the Object has exactly one entry and its value is a non-empty Array
SoleArrayField(obj) ==
    Len(obj.kv) = 1 /\ obj.kv[1][2].t = "arr" /\ obj.kv[1][2].el # <<>>

\* the text is a table under the key of obj's first entry: its first line is
\* key[N]{c1,...,ck}: with N the Array's length and the columns of its first row
KeyedTableText(obj, txt) ==
    /\ obj.kv[1][2].t = "arr"
    /\ obj.kv[1][2].el # <<>>
    /\ obj.kv[1][2].el[1].t = "obj"
    /\ Split(txt, NL)[1] = obj.kv[1][1] \o <<"[">> \o IntToStr(Len(obj.kv[1][2].el))
                              \o <<"]", "{">> \o Join(Keys(obj.kv[1][2].el[1].kv), <<",">>)
                              \o <<"}", ":">>

\* the text is in the key: value form: it opens with the first key and a colon
\* and its first line is no table header
KeyValueText(obj, txt) ==
    /\ StartsWith(txt, obj.kv[1][1] \o <<":">>)
    /\ ~EndsWith(Split(txt, NL)[1], <<"}", ":">>)

\* C26: the encoder emits the tabular-with-key form for an Object exactly when
\* the Object has exactly one entry whose value is a non-empty Array; in every
\* other case it emits the key: value form.
C26_KeyedTableIffSoleArray ==
    ObjectEncoded
    => IF SoleArrayField(data) THEN KeyedTableText(data, text) ELSE KeyValueText(data, text)

\* C26, amended: the encoder emits the tabular-with-key form for an Object
\* exactly when the Object has exactly one entry, that entry's value is a
\* non-empty Array and the Array's first element is an Object; in every other
\* case of a non-empty Object it emits the key: value form, and the empty
\* Object is written {}.
C26_KeyedTableIffSoleArrayOfObject ==
    /\ ObjectEncoded
       => IF SoleArrayField(data) /\ data.kv[1][2].el[1].t = "obj"
          THEN KeyedTableText(data, text)
          ELSE KeyValueText(data, text)
    /\ (pc = "encoded" /\ data = Obj(<<>>)) => text = <<"{", "}">>

\* {"items": [1, {...}]}: a sole non-empty Array whose first element is not an
\* Object has been encoded in the key: value form
C26_Witness ==
    /\ ObjectEncoded
    /\ SoleArrayField(data)
    /\ data.kv[1][2].el[1].t = "int"
    /\ Len(data.kv[1][2].el) = 2
    /\ data.kv[1][2].el[2].t = "obj"
    /\ KeyValueText(data, text)

\* a non-empty Array has been encoded as the top-level value
ArrayEncoded == pc = "encoded" /\ data.t = "arr" /\ data.el # <<>>

\* the text is a bare table of arr: its first line is [N]{c1,...,ck}: with the
\* columns of the first element
BareTableText(arr, txt) ==
    /\ arr.el[1].t = "obj"
    /\ Split(txt, NL)[1] = <<"[">> \o IntToStr(Len(arr.el)) \o <<"]", "{">>
                              \o Join(Keys(arr.el[1].kv), <<",">>) \o <<"}", ":">>

\* C27: _is_uniform_array(a) is true iff a has at least two elements, every
\* element is an Object and every element's key set equals the first one's, key
\* order ignored: exactly those Arrays are encoded as a bare table.
C27_UniformArrayIff == ArrayEncoded => (BareTableText(data, text) <=> UniformArray(data))

\* [{"a": 1, "b": 2}, {"b": 2, "a": 1}], the same keys in another order, has
\* been encoded as a bare table
C27_Witness ==
    /\ ArrayEncoded
    /\ Len(data.el) = 2
    /\ UniformArray(data)
    /\ Keys(data.el[1].kv) # Keys(data.el[2].kv)
    /\ BareTableText(data, text)

\* the second row of the table, the one that lacks a column
ShortRow == data.kv[1][2].el[2]

\* the columns of the table: the keys of its first row
ColumnsOf(obj) == Keys(obj.kv[1][2].el[1].kv)

\* the fields _parse_csv_line reads from the row line written for ShortRow
ShortRowFields == _parse_csv_line(Strip(Split(text, NL)[3]))

\* C28: in tabular output, the row of an element that lacks one of the header's
\* columns still has one field per column, with an empty field in the missing
\* column's position, and decoding maps every column the element has to its
\* original value.
C28_MissingFieldKeepsColumn ==
    /\ (pc = "encoded" /\ data \in MissingFieldInputs)
       => /\ Len(ShortRowFields) = Len(ColumnsOf(data))
          /\ \A c \in 1..Len(ColumnsOf(data)) :
                ~HasKey(ShortRow.kv, ColumnsOf(data)[c]) => ShortRowFields[c] = <<>>
    /\ (pc = "decoded" /\ data \in MissingFieldInputs /\ ShortRow.kv # <<>>)
       => /\ result.t = "obj"
          /\ Len(result.kv[1][2].el) = 2
          /\ \A i \in 1..Len(ShortRow.kv) :
                Lookup(result.kv[1][2].el[2].kv, ShortRow.kv[i][1]) = ShortRow.kv[i][2]

\* a table, keyed or bare, has been encoded
TableEncoded ==
    /\ pc = "encoded"
    /\ \/ data.t = "arr" /\ _is_uniform_array(data)
       \/ data.t = "obj" /\ SoleArrayField(data) /\ data.kv[1][2].el[1].t = "obj"

\* the row count written between [ and ] in the header line
HeaderCount(txt) ==
    LET header == Split(txt, NL)[1]
        open == CHOOSE i \in Positions(header, "[") : \A j \in Positions(header, "[") : j <= i
        close == CHOOSE i \in Positions(header, "]") : \A j \in Positions(header, "]") : j <= i
    IN  SubSeq(header, open + 1, close - 1)

\* C29: in every tabular output, keyed or bare, the count N of the header is the
\* length of the encoded Array and the number of row lines after the header, so
\* that decoding yields exactly N row Objects.
C29_HeaderCountMatchesRows ==
    /\ TableEncoded
       => /\ HeaderCount(text) = IntToStr(Len(TableOf(data).el))
          /\ Len(RowLinesOf(text)) = Len(TableOf(data).el)
    /\ (pc = "decoded" /\ data.t = "obj" /\ SoleArrayField(data)
          /\ data.kv[1][2].el[1].t = "obj" /\ result.t = "obj")
       => /\ result.kv[1][2].t = "arr"
          /\ Len(result.kv[1][2].el) = Len(data.kv[1][2].el)

\* C30: whenever decode returns, it returns an Object: never a bare Array, a
\* scalar or Null, on the tabular path and on the key/value path alike.
C30_DecodeReturnsObject == (pc = "decoded" /\ result.t # "raise") => result.t = "obj"

\* the text of a top-level Array of two rows, a table without a key, has been
\* decoded, and the result is an Object
C30_Witness ==
    /\ pc = "decoded"
    /\ UniformArray(data)
    /\ _is_tabular_format(Split(text, NL)[1])
    /\ result.t = "obj"

====
